---- MODULE Spec2Model ----
(***************************************************************************)
(* Report approval workflow of the crm-remittance backend.                 *)
(*                                                                         *)
(* Four report families (activity, financial, fellowshipOutreach,          *)
(* outreach) each live in their own MongoDB collection and are served by   *)
(* their own controller.  The handlers of one family never read or write   *)
(* the collection of another, so a behaviour of the model follows one      *)
(* collection: `family` is fixed by Init and `reports` is that collection. *)
(*                                                                         *)
(* Spec     : every request handler runs to completion before the next     *)
(*            one starts (requests processed one at a time).               *)
(* SpecConc : a handler is split at the await between its reads and its    *)
(*            write (create / save), so handlers interleave as they do on  *)
(*            the node event loop.                                         *)
(***************************************************************************)
EXTENDS Integers, FiniteSets, Sequences, Bags, TLC

VARIABLES family, reports, nextId, inflight, call

vars == <<family, reports, nextId, inflight, call>>

(***************************************************************************)
(* Bounds                                                                  *)
(***************************************************************************)
MaxReports == 2      \* reports ever created in one collection
MaxInFlight == 2     \* handlers suspended between read and write

(***************************************************************************)
(* Fixture: the organisational directory and the user base                 *)
(***************************************************************************)
None == "undefined"

Families == {"activity", "financial", "fellowshipOutreach", "outreach"}

\* The Fellowship collection: two zones of two fellowships each.
Fellowships == {"F1", "F2", "F3", "F4"}

FellowshipZone == [f \in Fellowships |-> IF f \in {"F1", "F3"} THEN "Z1" ELSE "Z2"]

Months == {1, 2}

\* The actors of the workflow specifications.
Users == {"sa", "nc", "acc", "anc", "zc1", "zc0", "p1", "p2"}

\* The User collection.  zc0 and p0 carry no zone / fellowship; q1 is the
\* president of F1 before p1 (User.fellowship is unique: one at a time).
Directory == Users \cup {"zc2", "p3", "p4", "p0", "q1"}

UserRole ==
  [u \in Directory |->
     CASE u = "sa"  -> "super_admin"
       [] u = "nc"  -> "national_coordinator"
       [] u = "acc" -> "accountant"
       [] u = "anc" -> "assistant_national_coordinator_secondary_school_outreach"
       [] u \in {"zc1", "zc2", "zc0"} -> "zonal_coordinator"
       [] u \in {"p2", "p4"} -> "fellowship_president_rccf"
       [] OTHER -> "fellowship_president_rcf"]

UserFellowship ==
  [u \in Directory |->
     CASE u \in {"p1", "q1"} -> "F1"
       [] u = "p2" -> "F2"
       [] u = "p3" -> "F3"
       [] u = "p4" -> "F4"
       [] OTHER -> None]

UserZone ==
  [u \in Directory |-> CASE u = "zc1" -> "Z1" [] u = "zc2" -> "Z2" [] OTHER -> None]

\* String.prototype.includes on a role string: substring test.
StrIncludes(role, sub) ==
  CASE sub = "fellowship_president" ->
         role \in {"fellowship_president_rcf", "fellowship_president_rccf"}
    [] sub = "national_coordinator" ->
         role \in {"national_coordinator",
                   "assistant_national_coordinator_secondary_school_outreach"}
    [] OTHER -> role = sub

(***************************************************************************)
(* Route role gates: authorizeRoles(...roles) in front of a handler.       *)
(* PUT /:id (update) is mounted behind `protect` only.                     *)
(***************************************************************************)
SubmitRoles(fam) ==
  CASE fam = "financial" -> {"fellowship_president_rcf", "fellowship_president_rccf"}
    [] fam = "outreach"  -> {"super_admin", "administrator",
                             "assistant_national_coordinator_secondary_school_outreach"}
    [] OTHER             -> {"super_admin", "administrator",
                             "fellowship_president_rcf", "fellowship_president_rccf"}

\* Variant for C13: the outreach route's list without the national coordinator.
ApproveRolesWithoutCoordinator(fam) ==
  CASE fam = "financial" -> {"accountant"}
    [] fam = "outreach"  -> {"super_admin", "administrator"}
    [] OTHER             -> {"super_admin", "administrator", "national_coordinator",
                             "zonal_coordinator"}

ApproveRoles(fam) ==
  CASE fam = "financial" -> {"accountant"}
    [] fam = "outreach"  -> {"super_admin", "administrator", "national_coordinator"}
    [] OTHER             -> {"super_admin", "administrator", "national_coordinator",
                             "zonal_coordinator"}

\* The financial router mounts no PUT /:id.
HasUpdateRoute(fam) == fam # "financial"

(***************************************************************************)
(* Responses.  A handler either answers 200/201 ("ok") or throws after     *)
(* res.status(n); the error middleware answers with the status set, or 500 *)
(* when none was set.  Outcomes are named after the thrown message.        *)
(***************************************************************************)
Outcomes ==
  {"ok", "forbidden_route", "missing_fields", "invalid_month", "not_authorized",
   "not_found", "already_exists", "E11000", "invalid_status", "already_decided",
   "reason_required", "TypeError", "not_assigned", "not_assigned_400",
   "empty_visits", "malformed_visit", "ValidationFailed"}

StatusCode(o) ==
  CASE o = "ok" -> 200
    [] o \in {"missing_fields", "invalid_month", "already_exists", "invalid_status",
              "already_decided", "reason_required", "not_assigned_400",
              "empty_visits", "malformed_visit"} -> 400
    [] o \in {"forbidden_route", "not_authorized", "not_assigned"} -> 403
    [] o = "not_found" -> 404
    [] OTHER -> 500

\* The error taxonomy of the specification, by thrown message.
Kind(o) ==
  CASE o = "ok" -> "Success"
    [] o \in {"missing_fields", "invalid_month", "invalid_status", "reason_required",
              "empty_visits", "malformed_visit"}
         -> "ValidationError"
    [] o \in {"forbidden_route", "not_authorized", "not_assigned", "not_assigned_400"}
         -> "AuthorizationError"
    [] o = "not_found" -> "NotFoundError"
    [] o \in {"already_exists", "already_decided"} -> "ConflictError"
    [] OTHER -> "ServerError"

(***************************************************************************)
(* The report store                                                        *)
(***************************************************************************)
\* A date is <<tag, month, day>>.  new Date(reportingMonth) yields a date, or
\* Invalid Date for an unparsable string; a body without reportingMonth
\* carries undefined.  getStartOfMonth maps any day of a month to its first.
Days == {1, 15}

NoDate == <<None, 0, 0>>

InvalidDate == <<"Invalid Date", 0, 0>>

DateInputs == {<<"date", m, d>> : m \in Months, d \in Days} \cup {NoDate, InvalidDate}

getStartOfMonth(date) == <<"date", date[2], 1>>

\* Owning scope of a report: the fellowship, or (outreach) the submitter.
ScopeOf(fam, r) == IF fam = "outreach" THEN r.submittedBy ELSE r.fellowship

ById(store, id) == {r \in store : r.id = id}

\* findOne({fellowship | submittedBy, reportingMonth}) of the submit pre-check.
existingReport(fam, store, scope, month) ==
  {r \in store : ScopeOf(fam, r) = scope /\ r.reportingMonth = month}

\* Payload values.  fieldA stands for the family's required payload
\* (totalAttendance | tithe | detailsOfVisits), fieldB for an optional one
\* (challenges | offering-side figures | challengesFaced).
Values == {"v0", "v1"}

NewReport(fam, id, u, fid, rm, a, b) ==
  [id              |-> id,
   fellowship      |-> IF fam = "outreach" THEN None ELSE fid,
   reportingMonth  |-> getStartOfMonth(rm),
   submittedBy     |-> u,
   status          |-> "pending",
   approvedBy      |-> None,
   approvalDate    |-> None,
   rejectionReason |-> None,
   fieldA          |-> a,
   fieldB          |-> b]

(***************************************************************************)
(* submit: everything a submit handler does before Model.create            *)
(***************************************************************************)
\* if (!fellowshipId || !reportingMonth || <required payload> === undefined)
SubmitMissingFields(fam, fid, rm, a) ==
  \/ fam # "outreach" /\ fid = None
  \/ rm = NoDate
  \/ a = None

\* Role and fellowship-link check of each submit handler.
SubmitNotAuthorized(fam, u, fid) ==
  LET role == UserRole[u]
      isFellowshipPresident == StrIncludes(role, "fellowship_president")
      isAdminOrSuperAdmin ==
        StrIncludes(role, "super_admin") \/ StrIncludes(role, "administrator")
  IN CASE fam = "financial" ->
            \/ ~isFellowshipPresident
            \/ UserFellowship[u] = None
            \/ UserFellowship[u] # fid
       [] fam = "outreach" ->
            /\ ~StrIncludes(role, "assistant_national_coordinator_secondary_school_outreach")
            /\ ~isAdminOrSuperAdmin
       [] OTHER ->
            \/ isFellowshipPresident /\ UserFellowship[u] # None /\ UserFellowship[u] # fid
            \/ ~isFellowshipPresident /\ ~isAdminOrSuperAdmin

\* Outcome of the checks of a submit handler, in the handler's order, up to and
\* including the findOne pre-check; "ok" when the handler goes on to create.
SubmitChecks(fam, store, u, fid, rm, a) ==
  LET scope == IF fam = "outreach" THEN u ELSE fid IN
  IF UserRole[u] \notin SubmitRoles(fam) THEN "forbidden_route"
  ELSE IF SubmitMissingFields(fam, fid, rm, a) THEN "missing_fields"
  ELSE IF SubmitNotAuthorized(fam, u, fid) THEN "not_authorized"
  ELSE IF fam \in {"activity", "fellowshipOutreach"} /\ fid \notin Fellowships
    THEN "not_found"
  ELSE IF rm = InvalidDate THEN "invalid_month"
  ELSE IF existingReport(fam, store, scope, getStartOfMonth(rm)) # {}
    THEN "already_exists"
  ELSE "ok"

(***************************************************************************)
(* Persistence: unique indexes, Model.create, document.save                *)
(***************************************************************************)
\* Variant for C4: the unique index also keyed by the submitter.
ActivityIndexPerSubmitter(r, doc) ==
  /\ r.fellowship = doc.fellowship
  /\ r.reportingMonth = doc.reportingMonth
  /\ r.submittedBy = doc.submittedBy

\* activityReportSchema.index({fellowship: 1, reportingMonth: 1}, {unique: true})
ActivityIndexCollides(r, doc) ==
  r.fellowship = doc.fellowship /\ r.reportingMonth = doc.reportingMonth

\* fellowshipOutreachReportSchema.index({fellowship: 1, reportingMonth: 1}, {unique: true})
FellowshipOutreachIndexCollides(r, doc) ==
  r.fellowship = doc.fellowship /\ r.reportingMonth = doc.reportingMonth

\* financialReportSchema: reportingMonth {unique: true} on the path itself, and
\* the compound index({fellowship: 1, reportingMonth: 1}, {unique: true}).
FinancialIndexCollides(r, doc) ==
  \/ r.reportingMonth = doc.reportingMonth
  \/ r.fellowship = doc.fellowship /\ r.reportingMonth = doc.reportingMonth

\* The outreach report schema: one report per submitting user per month.
OutreachIndexCollides(r, doc) ==
  r.submittedBy = doc.submittedBy /\ r.reportingMonth = doc.reportingMonth

IndexCollides(fam, r, doc) ==
  CASE fam = "activity"           -> ActivityIndexCollides(r, doc)
    [] fam = "fellowshipOutreach" -> FellowshipOutreachIndexCollides(r, doc)
    [] fam = "financial"          -> FinancialIndexCollides(r, doc)
    [] OTHER                      -> OutreachIndexCollides(r, doc)

\* Model.create(doc): MongoDB refuses the insert with E11000 when a unique
\* index already holds the key; the handlers do not catch it.
CreateOutcome(fam, store, doc) ==
  IF \E r \in store : IndexCollides(fam, r, doc) THEN "E11000" ELSE "ok"

Fields ==
  {"id", "fellowship", "reportingMonth", "submittedBy", "status", "approvedBy",
   "approvalDate", "rejectionReason", "fieldA", "fieldB"}

\* Paths Mongoose marks modified: those assigned a value that differs from
\* the loaded one.
ModifiedPaths(loaded, doc) == {f \in Fields : doc[f] # loaded[f]}

\* document.save(): updateOne({_id}, {$set/$unset of the modified paths}).
\* Unmodified paths keep whatever the collection holds now.
save(store, loaded, doc) ==
  {IF r.id = doc.id
     THEN [f \in Fields |-> IF f \in ModifiedPaths(loaded, doc) THEN doc[f] ELSE r[f]]
     ELSE r : r \in store}

(***************************************************************************)
(* approve-reject                                                          *)
(***************************************************************************)
Decisions == {"approved", "rejected", "pending"}

Reasons == {None, "", "late"}

\* Variant for C12: a zonal coordinator authorized whatever the zone.
ApproveAuthorizationAnyZone(fam, u, r) ==
  LET role == UserRole[u]
      listed == role \in {"super_admin", "administrator", "national_coordinator"}
  IN CASE fam = "financial" -> "ok"
       [] fam = "outreach"  -> IF listed THEN "ok" ELSE "not_authorized"
       [] OTHER ->
            IF listed \/ StrIncludes(role, "zonal_coordinator") THEN "ok"
            ELSE "not_authorized"

\* authorizedToApprove of the activity and fellowship-outreach handlers, of the
\* outreach handler (role list only); the financial handler has no such check.
\* approverZone.equals(...) on a coordinator without a zone throws a TypeError.
ApproveAuthorization(fam, u, r) ==
  LET role == UserRole[u]
      listed == role \in {"super_admin", "administrator", "national_coordinator"}
  IN CASE fam = "financial" -> "ok"
       [] fam = "outreach"  -> IF listed THEN "ok" ELSE "not_authorized"
       [] OTHER ->
            IF listed THEN "ok"
            ELSE IF ~StrIncludes(role, "zonal_coordinator") THEN "not_authorized"
            ELSE IF UserZone[u] = None THEN "TypeError"
            ELSE IF UserZone[u] = FellowshipZone[r.fellowship] THEN "ok"
            ELSE "not_authorized"

\* report.status = status; report.approvedBy = approvedBy; report.approvalDate =
\* new Date(); then rejectionReason is stored or cleared.
ApproveAssign(doc, u, decision, reason) ==
  [doc EXCEPT !.status = decision,
              !.approvedBy = u,
              !.approvalDate = "now",
              !.rejectionReason = IF decision = "rejected" THEN reason ELSE None]

\* Variant for C7: the reason compared with undefined only, so that an empty
\* string passes.
ReasonUndefinedOnly(decision, reason) == decision = "rejected" /\ reason = None

\* if (status === 'rejected') { if (!rejectionReason) throw ... }
ReasonMissing(decision, reason) == decision = "rejected" /\ reason \in {None, ""}

\* Variant for C1: the handler without its check of the current status.
ApproveChecksNoStatusCheck(fam, store, u, id, decision, reason) ==
  LET found == ById(store, id)
      r == CHOOSE x \in found : TRUE
  IN IF UserRole[u] \notin ApproveRoles(fam) THEN "forbidden_route"
     ELSE IF decision \notin {"approved", "rejected"} THEN "invalid_status"
     ELSE IF found = {} THEN "not_found"
     ELSE IF ApproveAuthorization(fam, u, r) # "ok" THEN ApproveAuthorization(fam, u, r)
     ELSE IF ReasonMissing(decision, reason) THEN "reason_required"
     ELSE "ok"

\* Variant for C3: the authorization check moved before the status check.
ApproveChecksAuthorizationFirst(fam, store, u, id, decision, reason) ==
  LET found == ById(store, id)
      r == CHOOSE x \in found : TRUE
  IN IF UserRole[u] \notin ApproveRoles(fam) THEN "forbidden_route"
     ELSE IF decision \notin {"approved", "rejected"} THEN "invalid_status"
     ELSE IF found = {} THEN "not_found"
     ELSE IF ApproveAuthorization(fam, u, r) # "ok" THEN ApproveAuthorization(fam, u, r)
     ELSE IF r.status # "pending" THEN "already_decided"
     ELSE IF ReasonMissing(decision, reason) THEN "reason_required"
     ELSE "ok"

\* Outcome of an approve-reject handler up to its save, in the handler's order.
ApproveChecks(fam, store, u, id, decision, reason) ==
  LET found == ById(store, id)
      r == CHOOSE x \in found : TRUE
  IN IF UserRole[u] \notin ApproveRoles(fam) THEN "forbidden_route"
     ELSE IF decision \notin {"approved", "rejected"} THEN "invalid_status"
     ELSE IF found = {} THEN "not_found"
     ELSE IF r.status # "pending" THEN "already_decided"
     ELSE IF ApproveAuthorization(fam, u, r) # "ok" THEN ApproveAuthorization(fam, u, r)
     ELSE IF ReasonMissing(decision, reason) THEN "reason_required"
     ELSE "ok"

(***************************************************************************)
(* update                                                                  *)
(***************************************************************************)
OwnerRole(fam) ==
  IF fam = "outreach"
    THEN "assistant_national_coordinator_secondary_school_outreach"
    ELSE "fellowship_president"

\* Variant for C9: the national coordinator counted among the elevated roles.
canUpdateAnyStatusWithCoordinator(u) ==
  UserRole[u] \in {"super_admin", "administrator", "national_coordinator"}

canUpdateAnyStatus(u) == UserRole[u] \in {"super_admin", "administrator"}

\* Variant for C8: the submitter admitted whatever the status.
canUpdateOwnAnyStatus(fam, u, r) ==
  /\ StrIncludes(UserRole[u], OwnerRole(fam))
  /\ r.submittedBy = u

canUpdateOwnPending(fam, u, r) ==
  /\ StrIncludes(UserRole[u], OwnerRole(fam))
  /\ r.submittedBy = u
  /\ r.status = "pending"

\* Variant for C10: the body's values assigned without the undefined test.
UpdateAssignUnconditional(fam, doc, a, b) ==
  [doc EXCEPT !.fieldA = a,
              !.fieldB = IF fam # "fellowshipOutreach" THEN b ELSE doc.fieldB]

\* Body values: None is a field absent from the body (=== undefined).
\* The fellowship-outreach handler reads detailsOfVisits (fieldA) only.
UpdateAssign(fam, doc, a, b) ==
  [doc EXCEPT !.fieldA = IF a # None THEN a ELSE doc.fieldA,
              !.fieldB = IF b # None /\ fam # "fellowshipOutreach" THEN b ELSE doc.fieldB]

UpdateChecks(fam, store, u, id) ==
  LET found == ById(store, id)
      r == CHOOSE x \in found : TRUE
  IN IF found = {} THEN "not_found"
     ELSE IF ~canUpdateAnyStatus(u) /\ ~canUpdateOwnPending(fam, u, r)
       THEN "not_authorized"
     ELSE "ok"

(***************************************************************************)
(* list and getById                                                        *)
(***************************************************************************)
\* authorizeRoles of GET / and of GET /:id (the same list on both routes).
ReadRoles(fam) ==
  LET viewers == {"super_admin", "administrator", "national_coordinator",
                  "assistant_national_coordinator_secondary_school_outreach",
                  "zonal_coordinator"}
      presidents == {"fellowship_president_rcf", "fellowship_president_rccf"}
  IN CASE fam = "outreach"           -> viewers
       [] fam = "fellowshipOutreach" -> viewers \cup presidents
       [] OTHER                      -> viewers \cup presidents \cup {"accountant"}

\* The roles a read handler lets see every report.
CanViewAll(fam, role) ==
  CASE fam = "financial" ->
         role \in {"super_admin", "administrator", "accountant", "national_coordinator",
                   "assistant_national_coordinator_secondary_school_outreach"}
    [] fam = "outreach" ->
         role \in {"super_admin", "administrator", "national_coordinator",
                   "assistant_national_coordinator_secondary_school_outreach",
                   "zonal_coordinator"}
    [] OTHER ->
         \/ StrIncludes(role, "super_admin")
         \/ StrIncludes(role, "administrator")
         \/ StrIncludes(role, "national_coordinator")
         \/ StrIncludes(role, "assistant_national_coordinator_secondary_school_outreach")

\* Fellowship.find({zone: user.zone}).select('_id')
fellowshipsInZone(zone) == {f \in Fellowships : FellowshipZone[f] = zone}

\* Outcome of a list handler called without query parameters.
ListChecks(fam, u) ==
  LET role == UserRole[u]
      unassigned == IF fam = "financial" THEN "not_assigned_400" ELSE "not_assigned"
  IN IF role \notin ReadRoles(fam) THEN "forbidden_route"
     ELSE IF CanViewAll(fam, role) THEN "ok"
     ELSE IF fam = "outreach" THEN "not_authorized"
     ELSE IF StrIncludes(role, "zonal_coordinator")
       THEN IF UserZone[u] = None THEN unassigned ELSE "ok"
     ELSE IF StrIncludes(role, "fellowship_president")
       THEN IF UserFellowship[u] = None THEN unassigned ELSE "ok"
     ELSE "not_authorized"

\* Variant for C15: the president's query without the submittedBy filter.
ListResultByFellowship(fam, store, u) ==
  LET role == UserRole[u] IN
  IF CanViewAll(fam, role) THEN store
  ELSE IF StrIncludes(role, "zonal_coordinator")
    THEN {r \in store : r.fellowship \in fellowshipsInZone(UserZone[u])}
  ELSE {r \in store : r.fellowship = UserFellowship[u]}

\* Variant for C14: the zonal coordinator's query without the fellowship filter.
ListResultUnfiltered(fam, store, u) ==
  LET role == UserRole[u] IN
  IF CanViewAll(fam, role) \/ StrIncludes(role, "zonal_coordinator") THEN store
  ELSE IF fam = "financial"
    THEN {r \in store : r.fellowship = UserFellowship[u]}
  ELSE {r \in store : r.fellowship = UserFellowship[u] /\ r.submittedBy = u}

\* The documents the query of a list handler selects for an admitted user.
ListResult(fam, store, u) ==
  LET role == UserRole[u] IN
  IF CanViewAll(fam, role) THEN store
  ELSE IF StrIncludes(role, "zonal_coordinator")
    THEN {r \in store : r.fellowship \in fellowshipsInZone(UserZone[u])}
  ELSE IF fam = "financial"
    THEN {r \in store : r.fellowship = UserFellowship[u]}
  ELSE {r \in store : r.fellowship = UserFellowship[u] /\ r.submittedBy = u}

\* The `authorized` flag of a getById handler.
GetAuthorized(fam, u, r) ==
  LET role == UserRole[u] IN
  IF CanViewAll(fam, role) THEN TRUE
  ELSE IF fam = "outreach" THEN FALSE
  ELSE IF StrIncludes(role, "zonal_coordinator")
    THEN UserZone[u] # None /\ UserZone[u] = FellowshipZone[r.fellowship]
  ELSE IF StrIncludes(role, "fellowship_president")
    THEN /\ UserFellowship[u] # None
         /\ UserFellowship[u] = r.fellowship
         /\ fam = "financial" \/ r.submittedBy = u
  ELSE FALSE

\* Outcome of a getById handler.
GetChecks(fam, store, u, id) ==
  LET found == ById(store, id)
      r == CHOOSE x \in found : TRUE
  IN IF UserRole[u] \notin ReadRoles(fam) THEN "forbidden_route"
     ELSE IF found = {} THEN "not_found"
     ELSE IF ~GetAuthorized(fam, u, r) THEN "not_authorized"
     ELSE "ok"

(***************************************************************************)
(* State                                                                   *)
(*   family   : the collection the behaviour follows                       *)
(*   reports  : the documents of that collection                           *)
(*   nextId   : the _id the next created document gets                     *)
(*   inflight : bag of the handlers suspended at the await before their    *)
(*              write, each with the document as loaded and as assigned    *)
(* A handler whose checks fail answers with the outcome the *Checks        *)
(* operator gives and writes nothing: it is a stuttering step.             *)
(***************************************************************************)
Ids == 1..MaxReports

\* No date helper has been called.
NoCall == [fn |-> "none"]

Init ==
  /\ family \in Families
  /\ reports = {}
  /\ nextId = 1
  /\ inflight = EmptyBag
  /\ call = NoCall

Doc(id) == CHOOSE r \in reports : r.id = id

\* fellowshipId of a request body: a fellowship, none, or an unknown id.
FellowshipInputs == {"F1", "F2", None, "F9"}

(***************************************************************************)
(* Requests processed one at a time: a handler runs from its first read to *)
(* its response without another handler in between.                        *)
(***************************************************************************)
submitReport(u, fid, rm, a, b) ==
  LET doc == NewReport(family, nextId, u, fid, rm, a, b) IN
  /\ nextId <= MaxReports
  /\ SubmitChecks(family, reports, u, fid, rm, a) = "ok"
  /\ CreateOutcome(family, reports, doc) = "ok"
  /\ reports' = reports \cup {doc}
  /\ nextId' = nextId + 1
  /\ UNCHANGED <<call, family, inflight>>

approveRejectReport(u, id, decision, reason) ==
  /\ ApproveChecks(family, reports, u, id, decision, reason) = "ok"
  /\ reports' = save(reports, Doc(id), ApproveAssign(Doc(id), u, decision, reason))
  /\ UNCHANGED <<call, family, nextId, inflight>>

updateReport(u, id, a, b) ==
  /\ HasUpdateRoute(family)
  /\ UpdateChecks(family, reports, u, id) = "ok"
  /\ reports' = save(reports, Doc(id), UpdateAssign(family, Doc(id), a, b))
  /\ UNCHANGED <<call, family, nextId, inflight>>

Submit == \E u \in Users, fid \in FellowshipInputs, rm \in DateInputs,
             a \in {None, "v0"}, b \in {"v0"} :
            submitReport(u, fid, rm, a, b)

ApproveReject == \E u \in Users, id \in Ids, decision \in Decisions, reason \in Reasons :
                   approveRejectReport(u, id, decision, reason)

Update == \E u \in Users, id \in Ids, a \in {None, "v1"}, b \in {None, "v1"} :
            updateReport(u, id, a, b)

Next == Submit \/ ApproveReject \/ Update

Spec == Init /\ [][Next]_vars

(***************************************************************************)
(* Interleaved handlers: a handler suspends at the await of its write      *)
(* (Model.create / document.save) after its reads and checks; other        *)
(* handlers run in between.                                                *)
(***************************************************************************)
Request(op, loaded, doc) == [op |-> op, loaded |-> loaded, doc |-> doc]

Suspend(req) ==
  /\ BagCardinality(inflight) < MaxInFlight
  /\ inflight' = inflight (+) SetToBag({req})

Resume(req) == inflight' = inflight (-) SetToBag({req})

beginSubmit(u, fid, rm, a, b) ==
  LET doc == NewReport(family, 0, u, fid, rm, a, b) IN
  /\ nextId <= MaxReports
  /\ SubmitChecks(family, reports, u, fid, rm, a) = "ok"
  /\ Suspend(Request("submit", doc, doc))
  /\ UNCHANGED <<call, family, reports, nextId>>

createReport(req) ==
  LET doc == [req.doc EXCEPT !.id = nextId] IN
  /\ req.op = "submit"
  /\ nextId <= MaxReports
  /\ IF CreateOutcome(family, reports, doc) = "ok"
       THEN reports' = reports \cup {doc} /\ nextId' = nextId + 1
       ELSE UNCHANGED <<reports, nextId>>
  /\ Resume(req)
  /\ UNCHANGED <<call, family>>

beginApproveReject(u, id, decision, reason) ==
  /\ ApproveChecks(family, reports, u, id, decision, reason) = "ok"
  /\ Suspend(Request("approve", Doc(id), ApproveAssign(Doc(id), u, decision, reason)))
  /\ UNCHANGED <<call, family, reports, nextId>>

saveReport(req) ==
  /\ req.op = "approve"
  /\ reports' = save(reports, req.loaded, req.doc)
  /\ Resume(req)
  /\ UNCHANGED <<call, family, nextId>>

BeginSubmit == \E u \in Users, fid \in FellowshipInputs, rm \in DateInputs,
                  a \in {None, "v0"}, b \in {"v0"} :
                 beginSubmit(u, fid, rm, a, b)

Create == \E req \in BagToSet(inflight) : createReport(req)

BeginApproveReject ==
  \E u \in Users, id \in Ids, decision \in Decisions, reason \in Reasons :
    beginApproveReject(u, id, decision, reason)

Save == \E req \in BagToSet(inflight) : saveReport(req)

NextConc == BeginSubmit \/ Create \/ BeginApproveReject \/ Save

SpecConc == Init /\ [][NextConc]_vars

(***************************************************************************)
(* The whole directory at work: submits by every account for every         *)
(* fellowship, the store the read handlers answer from.  q1 held F1 before *)
(* p1 did, so q1's submits precede every report of p1.                     *)
(***************************************************************************)
Accounts == Directory \ {"q1"}

AccessDates == {<<"date", 1, 1>>, <<"date", 2, 15>>}

SubmitByAccount ==
  \E u \in Accounts, fid \in Fellowships \cup {None}, rm \in AccessDates :
    submitReport(u, fid, rm, "v0", "v0")

SubmitByPredecessor ==
  /\ \A r \in reports : r.submittedBy # "p1"
  /\ \E rm \in AccessDates : submitReport("q1", UserFellowship["q1"], rm, "v0", "v0")

NextAccess == SubmitByAccount \/ SubmitByPredecessor

SpecAccess == Init /\ [][NextAccess]_vars

(***************************************************************************)
(* Fellowship-outreach documents with their visit list and summary totals. *)
(* A visit of a request body carries schoolName and any of the three       *)
(* counters; the sub-schema defaults a counter that is absent to 0.        *)
(***************************************************************************)
MaxVisits == 2       \* items of a detailsOfVisits list

Counters == {"studentsReached", "newConverts", "materialsDistributed"}

VisitInputs ==
  {[schoolName |-> "s1", studentsReached |-> 2, newConverts |-> 1, materialsDistributed |-> 3],
   [schoolName |-> "s2", studentsReached |-> 1]}

\* Casting a visit to the sub-schema: absent counters take their default.
CastVisit(v) ==
  [schoolName           |-> v.schoolName,
   studentsReached      |-> IF "studentsReached" \in DOMAIN v THEN v.studentsReached ELSE 0,
   newConverts          |-> IF "newConverts" \in DOMAIN v THEN v.newConverts ELSE 0,
   materialsDistributed |-> IF "materialsDistributed" \in DOMAIN v
                              THEN v.materialsDistributed ELSE 0]

VisitLists ==
  UNION {[1..n -> VisitInputs] : n \in 0..MaxVisits}

\* Request bodies: detailsOfVisits present or not, client totals present or not.
\* ClientTotal is a total no visit list of the fixture adds up to.
ClientTotal == 7

SubmitBodies ==
  {[detailsOfVisits |-> l] : l \in VisitLists}
    \cup {[detailsOfVisits |-> l, totalSchoolsVisited |-> ClientTotal,
           totalStudentsReached |-> ClientTotal, totalNewConverts |-> ClientTotal,
           totalMaterialsDistributed |-> ClientTotal] : l \in VisitLists}
    \cup {[totalSchoolsVisited |-> ClientTotal]}

UpdateBodies ==
  {[detailsOfVisits |-> l] : l \in VisitLists} \cup {[challengesFaced |-> "v1"]}

\* detailsOfVisits.reduce((sum, visit) => sum + (visit[counter] || 0), 0)
RECURSIVE reduce(_, _)
reduce(list, counter) ==
  IF list = << >> THEN 0
  ELSE list[Len(list)][counter] + reduce(SubSeq(list, 1, Len(list) - 1), counter)

\* Variant for C11: the hook recalculating for a new document only.
preSaveNewOnly(doc, isNew, isModified) ==
  IF isNew
    THEN [doc EXCEPT !.totalSchoolsVisited = Len(doc.detailsOfVisits),
                     !.totalStudentsReached = reduce(doc.detailsOfVisits, "studentsReached"),
                     !.totalNewConverts = reduce(doc.detailsOfVisits, "newConverts"),
                     !.totalMaterialsDistributed =
                        reduce(doc.detailsOfVisits, "materialsDistributed")]
    ELSE doc

\* fellowshipOutreachReportSchema.pre('save')
preSave(doc, isNew, isModified) ==
  IF isModified \/ isNew
    THEN [doc EXCEPT !.totalSchoolsVisited = Len(doc.detailsOfVisits),
                     !.totalStudentsReached = reduce(doc.detailsOfVisits, "studentsReached"),
                     !.totalNewConverts = reduce(doc.detailsOfVisits, "newConverts"),
                     !.totalMaterialsDistributed =
                        reduce(doc.detailsOfVisits, "materialsDistributed")]
    ELSE doc

Total(body, f) == IF f \in DOMAIN body THEN body[f] ELSE 0

\* The document FellowshipOutreachReport.create() builds from the body,
\* before its hooks run.
NewOutreachDoc(id, u, fid, rm, body) ==
  [id              |-> id,
   fellowship      |-> fid,
   reportingMonth  |-> getStartOfMonth(rm),
   submittedBy     |-> u,
   status          |-> "pending",
   detailsOfVisits |-> [i \in DOMAIN body.detailsOfVisits |->
                          CastVisit(body.detailsOfVisits[i])],
   totalSchoolsVisited       |-> Total(body, "totalSchoolsVisited"),
   totalStudentsReached      |-> Total(body, "totalStudentsReached"),
   totalNewConverts          |-> Total(body, "totalNewConverts"),
   totalMaterialsDistributed |-> Total(body, "totalMaterialsDistributed"),
   updatedAt       |-> "created"]

Payload(body) == IF "detailsOfVisits" \in DOMAIN body THEN "v0" ELSE None

submitFellowshipOutreachReport(u, fid, rm, body) ==
  /\ nextId <= MaxReports
  /\ SubmitChecks("fellowshipOutreach", reports, u, fid, rm, Payload(body)) = "ok"
  /\ LET doc == preSave(NewOutreachDoc(nextId, u, fid, rm, body), TRUE, FALSE) IN
       /\ CreateOutcome("fellowshipOutreach", reports, doc) = "ok"
       /\ reports' = reports \cup {doc}
  /\ nextId' = nextId + 1
  /\ UNCHANGED <<call, family, inflight>>

updateFellowshipOutreachReport(u, id, body) ==
  /\ UpdateChecks("fellowshipOutreach", reports, u, id) = "ok"
  /\ LET report == Doc(id)
         assigned == IF "detailsOfVisits" \in DOMAIN body
                       THEN [report EXCEPT !.detailsOfVisits =
                               [i \in DOMAIN body.detailsOfVisits |->
                                  CastVisit(body.detailsOfVisits[i])]]
                       ELSE report
         isModified == assigned.detailsOfVisits # report.detailsOfVisits
         saved == preSave(assigned, FALSE, isModified)
     IN reports' = (reports \ {report})
                     \cup {IF saved = report THEN report
                           ELSE [saved EXCEPT !.updatedAt = "updated"]}
  /\ UNCHANGED <<call, family, nextId, inflight>>

InitTotals ==
  /\ family = "fellowshipOutreach"
  /\ reports = {}
  /\ nextId = 1
  /\ inflight = EmptyBag
  /\ call = NoCall

SubmitOutreach ==
  \E u \in {"sa", "p1", "p2"}, fid \in {"F1", None}, rm \in AccessDates, body \in SubmitBodies :
    submitFellowshipOutreachReport(u, fid, rm, body)

UpdateOutreach ==
  \E u \in {"sa", "p1", "nc"}, id \in Ids, body \in UpdateBodies :
    updateFellowshipOutreachReport(u, id, body)

NextTotals == SubmitOutreach \/ UpdateOutreach

SpecTotals == InitTotals /\ [][NextTotals]_vars

(***************************************************************************)
(* Date helpers.  A Date is modelled by its local-time fields, months      *)
(* 0-indexed as in JavaScript; the process runs in a time zone without     *)
(* daylight saving, so every local midnight exists.  null is a Date-shaped *)
(* value whose day of the month is 0, which no Date has.                   *)
(***************************************************************************)
FirstYear == 2023
LastYear == 2026
MaxOccurrence == 6

Years == FirstYear..LastYear

null ==
  [year |-> 0, month |-> 0, date |-> 0,
   hours |-> 0, minutes |-> 0, seconds |-> 0, ms |-> 0]

IsNull(d) == d.date = 0

IsLeapYear(y) == (y % 4 = 0 /\ y % 100 # 0) \/ y % 400 = 0

DaysInMonth(y, m) ==
  IF m = 1 THEN (IF IsLeapYear(y) THEN 29 ELSE 28)
  ELSE IF m \in {3, 5, 8, 10} THEN 30 ELSE 31

\* Day number of 1 January of year y, counted from 1 January 1970.
DayFromYear(y) ==
  365 * (y - 1970) + ((y - 1969) \div 4) - ((y - 1901) \div 100)
    + ((y - 1601) \div 400)

\* Day number of a Date, counted from 1 January 1970.
Day(d) ==
  LET before[m \in 0..11] ==
        IF m = 0 THEN 0 ELSE before[m - 1] + DaysInMonth(d.year, m - 1)
  IN  DayFromYear(d.year) + before[d.month] + d.date - 1

\* new Date(year, month, day): local midnight; a month outside 0..11 or a
\* day outside the month carries into the neighbouring month or year.
RECURSIVE NewDate(_, _, _)
NewDate(y, m, d) ==
  LET yy == y + (m \div 12)
      mm == m % 12
  IN  IF d < 1
        THEN NewDate(yy, mm - 1,
                     d + DaysInMonth(yy + ((mm - 1) \div 12), (mm - 1) % 12))
      ELSE IF d > DaysInMonth(yy, mm)
        THEN NewDate(yy, mm + 1, d - DaysInMonth(yy, mm))
      ELSE [year |-> yy, month |-> mm, date |-> d,
            hours |-> 0, minutes |-> 0, seconds |-> 0, ms |-> 0]

\* Date.prototype.getDay: 0 is Sunday; 1 January 1970 was a Thursday.
getDay(d) == (Day(d) + 4) % 7

\* Date.prototype.setDate: the time of day is kept.
setDate(d, n) ==
  LET t == NewDate(d.year, d.month, n)
  IN  [t EXCEPT !.hours = d.hours, !.minutes = d.minutes,
                !.seconds = d.seconds, !.ms = d.ms]

\* Date.prototype.setHours(h, min, s, ms).
setHours(d, h, mi, s, msec) ==
  [d EXCEPT !.hours = h, !.minutes = mi, !.seconds = s, !.ms = msec]

\* Milliseconds since local midnight.
MsOfDay(d) == ((d.hours * 60 + d.minutes) * 60 + d.seconds) * 1000 + d.ms

\* Order of two Dates, as $lt and < compare them.
Before(a, b) ==
  \/ a.year < b.year
  \/ a.year = b.year /\ a.month < b.month
  \/ a.year = b.year /\ a.month = b.month /\ a.date < b.date
  \/ a.year = b.year /\ a.month = b.month /\ a.date = b.date
       /\ MsOfDay(a) < MsOfDay(b)

\* The while loop of getNthDayOfMonth, entered with the running date and
\* count.
RECURSIVE NthDayLoop(_, _, _, _, _)
NthDayLoop(date, month, dayOfWeek, occurrence, count) ==
  IF date.month # month THEN null
  ELSE IF getDay(date) = dayOfWeek
    THEN IF count + 1 = occurrence
           THEN NewDate(date.year, date.month, date.date)
           ELSE NthDayLoop(setDate(date, date.date + 1), month, dayOfWeek,
                           occurrence, count + 1)
    ELSE NthDayLoop(setDate(date, date.date + 1), month, dayOfWeek,
                    occurrence, count)

\* A getNthDayOfMonth whose count starts at one.
getNthDayOfMonthCountFromOne(year, month, dayOfWeek, occurrence) ==
  NthDayLoop(NewDate(year, month, 1), month, dayOfWeek, occurrence, 1)

getNthDayOfMonth(year, month, dayOfWeek, occurrence) ==
  NthDayLoop(NewDate(year, month, 1), month, dayOfWeek, occurrence, 0)

\* The value a period resolver hands back, or the error it throws.
Period(start, end) ==
  [threw |-> FALSE, periodStartDate |-> start, periodEndDate |-> end]

PeriodError == [threw |-> TRUE, periodStartDate |-> null, periodEndDate |-> null]

\* A financial resolver that takes the previous month in the same year.
getCustomReportingPeriodDatesSameYear(year, monthIndex) ==
  LET prevMonthIndex == IF monthIndex - 1 < 0 THEN 11 ELSE monthIndex - 1
      periodStartDate == getNthDayOfMonth(year, prevMonthIndex, 0, 3)
      periodEndDate == getNthDayOfMonth(year, monthIndex, 0, 2)
  IN  IF IsNull(periodStartDate) \/ IsNull(periodEndDate) THEN PeriodError
      ELSE Period(setHours(periodStartDate, 0, 0, 0, 0),
                  setHours(periodEndDate, 23, 59, 59, 999))

\* getCustomReportingPeriodDates of the financial and the outreach
\* controller.
getCustomReportingPeriodDates(year, monthIndex) ==
  LET prevMonthIndex == IF monthIndex - 1 < 0 THEN 11 ELSE monthIndex - 1
      prevMonthYear == IF monthIndex - 1 < 0 THEN year - 1 ELSE year
      periodStartDate == getNthDayOfMonth(prevMonthYear, prevMonthIndex, 0, 3)
      periodEndDate == getNthDayOfMonth(year, monthIndex, 0, 2)
  IN  IF IsNull(periodStartDate) \/ IsNull(periodEndDate) THEN PeriodError
      ELSE Period(setHours(periodStartDate, 0, 0, 0, 0),
                  setHours(periodEndDate, 23, 59, 59, 999))

\* A fellowship-outreach resolver that starts on the second Sunday itself.
getOutreachPeriodDatesFromSunday(year, monthIndex) ==
  LET prevMonthIndex == IF monthIndex - 1 < 0 THEN 11 ELSE monthIndex - 1
      prevMonthYear == IF monthIndex - 1 < 0 THEN year - 1 ELSE year
      secondSundayPrevMonth ==
        getNthDayOfMonth(prevMonthYear, prevMonthIndex, 0, 2)
      periodEndDate == getNthDayOfMonth(year, monthIndex, 0, 3)
  IN  IF IsNull(secondSundayPrevMonth) THEN PeriodError
      ELSE IF IsNull(periodEndDate) THEN PeriodError
      ELSE Period(setHours(secondSundayPrevMonth, 0, 0, 0, 0),
                  setHours(periodEndDate, 23, 59, 59, 999))

\* getCustomReportingPeriodDates of the fellowship outreach controller.
getOutreachPeriodDates(year, monthIndex) ==
  LET prevMonthIndex == IF monthIndex - 1 < 0 THEN 11 ELSE monthIndex - 1
      prevMonthYear == IF monthIndex - 1 < 0 THEN year - 1 ELSE year
      secondSundayPrevMonth ==
        getNthDayOfMonth(prevMonthYear, prevMonthIndex, 0, 2)
      periodStartDate ==
        setDate(secondSundayPrevMonth, secondSundayPrevMonth.date + 1)
      periodEndDate == getNthDayOfMonth(year, monthIndex, 0, 3)
  IN  IF IsNull(secondSundayPrevMonth) THEN PeriodError
      ELSE IF IsNull(periodEndDate) THEN PeriodError
      ELSE Period(setHours(periodStartDate, 0, 0, 0, 0),
                  setHours(periodEndDate, 23, 59, 59, 999))

\* getMonthlyPeriodDates of the activity controller: the calendar month.
getMonthlyPeriodDates(year, monthIndex) ==
  Period(setHours(NewDate(year, monthIndex, 1), 0, 0, 0, 0),
         setHours(NewDate(year, monthIndex + 1, 0), 23, 59, 59, 999))

\* The resolver each family's controller calls.
PeriodDatesOf(fam, year, monthIndex) ==
  IF fam = "activity" THEN getMonthlyPeriodDates(year, monthIndex)
  ELSE IF fam = "fellowshipOutreach"
    THEN getOutreachPeriodDates(year, monthIndex)
  ELSE getCustomReportingPeriodDates(year, monthIndex)

(***************************************************************************)
(* SpecDates: the date helpers applied to every input of the bounded       *)
(* ranges.  The initial state holds a call that has not run; an action     *)
(* runs it and records what it returned.                                   *)
(***************************************************************************)
NthDayCalls ==
  [fn : {"getNthDayOfMonth"}, year : Years, month : 0..11,
   dayOfWeek : 0..6, occurrence : 1..MaxOccurrence, done : {FALSE}]

PeriodCalls ==
  [fn : {"getPeriodDates"}, year : Years, monthIndex : 0..11, done : {FALSE}]

InitDates ==
  /\ reports = {}
  /\ nextId = 1
  /\ inflight = EmptyBag
  /\ \/ family \in Families \ {"activity"} /\ call \in NthDayCalls
     \/ family \in Families /\ call \in PeriodCalls

CallNthDayOfMonth ==
  /\ call.fn = "getNthDayOfMonth"
  /\ ~call.done
  /\ call' = [fn |-> call.fn, year |-> call.year, month |-> call.month,
              dayOfWeek |-> call.dayOfWeek, occurrence |-> call.occurrence,
              done |-> TRUE,
              result |-> getNthDayOfMonth(call.year, call.month,
                                          call.dayOfWeek, call.occurrence)]
  /\ UNCHANGED <<family, reports, nextId, inflight>>

CallPeriodDates ==
  /\ call.fn = "getPeriodDates"
  /\ ~call.done
  /\ call' = [fn |-> call.fn, year |-> call.year,
              monthIndex |-> call.monthIndex, done |-> TRUE,
              result |-> PeriodDatesOf(family, call.year, call.monthIndex)]
  /\ UNCHANGED <<family, reports, nextId, inflight>>

NextDates == CallNthDayOfMonth \/ CallPeriodDates

SpecDates == InitDates /\ [][NextDates]_vars

(***************************************************************************)
(* SpecResponses: the five handlers of a family together with the body of  *)
(* their success response.  call holds the last response: the handler, the *)
(* status and one entry per returned report.  An entry built by            *)
(* {...report.toObject(), periodStartDate, periodEndDate} carries the      *)
(* report and both period fields; an entry built from the document alone   *)
(* carries the report only.                                                *)
(***************************************************************************)
\* The year of the reporting months of the fixture.
ReportYear == 2025

\* {...report.toObject(), periodStartDate, periodEndDate}
WithPeriodDates(fam, doc) ==
  LET p == PeriodDatesOf(fam, ReportYear, doc.reportingMonth[2] - 1)
  IN  [report |-> doc, periodStartDate |-> p.periodStartDate,
       periodEndDate |-> p.periodEndDate]

\* res.json(updatedReport)
Plain(doc) == [report |-> doc]

\* The entries a handler sends for the reports it returns.
ResponseBody(fam, op, docs) ==
  IF fam = "financial" /\ op = "approveReject"
    THEN {Plain(d) : d \in docs}
    ELSE {WithPeriodDates(fam, d) : d \in docs}

Response(fam, op, status, docs) ==
  [fn |-> op, status |-> status, body |-> ResponseBody(fam, op, docs)]

ResponseUsers == {"sa", "acc", "anc", "zc1", "p1"}

submitResponds(u, fid, rm, a, b) ==
  LET doc == NewReport(family, nextId, u, fid, rm, a, b) IN
  /\ nextId <= MaxReports
  /\ SubmitChecks(family, reports, u, fid, rm, a) = "ok"
  /\ CreateOutcome(family, reports, doc) = "ok"
  /\ reports' = reports \cup {doc}
  /\ nextId' = nextId + 1
  /\ call' = Response(family, "submit", 201, {doc})
  /\ UNCHANGED <<family, inflight>>

listResponds(u) ==
  /\ ListChecks(family, u) = "ok"
  /\ call' = Response(family, "list", 200, ListResult(family, reports, u))
  /\ UNCHANGED <<family, reports, nextId, inflight>>

getByIdResponds(u, id) ==
  /\ GetChecks(family, reports, u, id) = "ok"
  /\ call' = Response(family, "getById", 200, {Doc(id)})
  /\ UNCHANGED <<family, reports, nextId, inflight>>

updateResponds(u, id, a, b) ==
  LET store == save(reports, Doc(id), UpdateAssign(family, Doc(id), a, b)) IN
  /\ HasUpdateRoute(family)
  /\ UpdateChecks(family, reports, u, id) = "ok"
  /\ reports' = store
  /\ call' = Response(family, "update", 200, ById(store, id))
  /\ UNCHANGED <<family, nextId, inflight>>

approveRejectResponds(u, id, decision, reason) ==
  LET store == save(reports, Doc(id),
                    ApproveAssign(Doc(id), u, decision, reason)) IN
  /\ ApproveChecks(family, reports, u, id, decision, reason) = "ok"
  /\ reports' = store
  /\ call' = Response(family, "approveReject", 200, ById(store, id))
  /\ UNCHANGED <<family, nextId, inflight>>

RespondSubmit == \E u \in ResponseUsers, rm \in AccessDates :
                   submitResponds(u, "F1", rm, "v0", "v0")

RespondList == \E u \in ResponseUsers : listResponds(u)

RespondGetById == \E u \in ResponseUsers, id \in Ids : getByIdResponds(u, id)

RespondUpdate == \E u \in ResponseUsers, id \in Ids :
                   updateResponds(u, id, "v1", None)

RespondApproveReject ==
  \E u \in ResponseUsers, id \in Ids, decision \in {"approved", "rejected"} :
    approveRejectResponds(u, id, decision, "late")

NextResponses ==
  \/ RespondSubmit
  \/ RespondList
  \/ RespondGetById
  \/ RespondUpdate
  \/ RespondApproveReject

SpecResponses == Init /\ [][NextResponses]_vars

(***************************************************************************)
(* delete: DELETE /:id of the activity and the fellowship outreach router. *)
(* The route is behind protect only, so every authenticated user reaches   *)
(* the handler.  SpecDelete records each delete request in call: the user, *)
(* the id and the outcome.                                                 *)
(***************************************************************************)
HasDeleteRoute(fam) == fam \in {"activity", "fellowshipOutreach"}

canDeleteAny(u) == UserRole[u] \in {"super_admin", "administrator"}

\* A canDeleteOwnPending without the status test.
canDeleteOwnAnyStatus(u, r) ==
  /\ StrIncludes(UserRole[u], "fellowship_president")
  /\ r.submittedBy = u

canDeleteOwnPending(u, r) ==
  /\ StrIncludes(UserRole[u], "fellowship_president")
  /\ r.submittedBy = u
  /\ r.status = "pending"

DeleteChecks(store, u, id) ==
  LET found == ById(store, id)
      r == CHOOSE x \in found : TRUE
  IN IF found = {} THEN "not_found"
     ELSE IF ~canDeleteAny(u) /\ ~canDeleteOwnPending(u, r)
       THEN "not_authorized"
     ELSE "ok"

deleteReport(u, id) ==
  LET outcome == DeleteChecks(reports, u, id) IN
  /\ HasDeleteRoute(family)
  /\ reports' = IF outcome = "ok" THEN reports \ ById(reports, id) ELSE reports
  /\ call' = [fn |-> "delete", user |-> u, id |-> id, outcome |-> outcome]
  /\ UNCHANGED <<family, nextId, inflight>>

DeleteUsers == {"sa", "nc", "zc1", "p1", "p2"}

Delete == \E u \in DeleteUsers, id \in Ids : deleteReport(u, id)

NextDelete == RespondSubmit \/ RespondUpdate \/ RespondApproveReject \/ Delete

SpecDelete == Init /\ [][NextDelete]_vars

(***************************************************************************)
(* SpecVisits: submit and update of the two families with line items       *)
(* (outreach, fellowship outreach), with detailsOfVisits as a list of      *)
(* items.  fieldA of a report holds the list.  call records the last       *)
(* request: the handler, the shape of its list and the outcome.            *)
(***************************************************************************)
MaxItems == 2

\* A school visit of a request body: well formed, without visitDate,
\* without schoolName.
ItemInputs ==
  {[schoolName |-> "s1", visitDate |-> "d1"],
   [schoolName |-> "s1"],
   [visitDate |-> "d1"]}

DetailLists == UNION {[1..n -> ItemInputs] : n \in 0..MaxItems}

\* !visit.schoolName || !visit.visitDate
ItemIncomplete(visit) ==
  "schoolName" \notin DOMAIN visit \/ "visitDate" \notin DOMAIN visit

AnyIncomplete(list) == \E i \in DOMAIN list : ItemIncomplete(list[i])

\* Request bodies: a detailsOfVisits list, or none.
VisitBodies ==
  {[detailsOfVisits |-> l] : l \in DetailLists} \cup {[challengesFaced |-> "v1"]}

HasDetails(body) == "detailsOfVisits" \in DOMAIN body

\* The shape of the list of a body.
Shape(body) ==
  IF ~HasDetails(body) THEN "absent"
  ELSE IF body.detailsOfVisits = << >> THEN "empty"
  ELSE IF AnyIncomplete(body.detailsOfVisits) THEN "malformed"
  ELSE "valid"

\* Validation of the sub-schema on create and save: schoolName and
\* visitDate are required paths of every item.
SchemaInvalid(list) == AnyIncomplete(list)

\* Outcome of submitOutreachReport / submitFellowshipOutreachReport.
SubmitVisitsChecks(fam, store, u, fid, rm, body) ==
  LET base == SubmitChecks(fam, store, u, fid, rm, Payload(body)) IN
  IF base \in {"forbidden_route", "missing_fields"} THEN base
  ELSE IF fam = "outreach" /\ body.detailsOfVisits = << >> THEN "empty_visits"
  ELSE IF fam = "outreach" /\ AnyIncomplete(body.detailsOfVisits)
    THEN "malformed_visit"
  ELSE IF base # "ok" THEN base
  ELSE IF SchemaInvalid(body.detailsOfVisits) THEN "ValidationFailed"
  ELSE "ok"

\* Outcome of updateOutreachReport / updateFellowshipOutreachReport.
UpdateVisitsChecks(fam, store, u, id, body) ==
  LET base == UpdateChecks(fam, store, u, id) IN
  IF base # "ok" THEN base
  ELSE IF ~HasDetails(body) THEN "ok"
  ELSE IF fam = "outreach" /\ body.detailsOfVisits = << >> THEN "empty_visits"
  ELSE IF fam = "outreach" /\ AnyIncomplete(body.detailsOfVisits)
    THEN "malformed_visit"
  ELSE IF SchemaInvalid(body.detailsOfVisits) THEN "ValidationFailed"
  ELSE "ok"

VisitRequest(op, body, outcome) ==
  [fn |-> op, shape |-> Shape(body), outcome |-> outcome]

submitVisits(u, fid, rm, body) ==
  LET outcome == SubmitVisitsChecks(family, reports, u, fid, rm, body)
      doc == NewReport(family, nextId, u, fid, rm, body.detailsOfVisits, None)
  IN  /\ nextId <= MaxReports
      /\ IF outcome = "ok" /\ CreateOutcome(family, reports, doc) = "ok"
           THEN reports' = reports \cup {doc} /\ nextId' = nextId + 1
           ELSE UNCHANGED <<reports, nextId>>
      /\ call' = VisitRequest("submit", body, outcome)
      /\ UNCHANGED <<family, inflight>>

updateVisits(u, id, body) ==
  LET outcome == UpdateVisitsChecks(family, reports, u, id, body)
      assigned == IF HasDetails(body)
                    THEN [Doc(id) EXCEPT !.fieldA = body.detailsOfVisits]
                    ELSE Doc(id)
  IN  /\ reports' = IF outcome = "ok" THEN save(reports, Doc(id), assigned)
                    ELSE reports
      /\ call' = VisitRequest("update", body, outcome)
      /\ UNCHANGED <<family, nextId, inflight>>

VisitUsers == {"sa", "anc", "p1", "nc"}

InitVisits ==
  /\ family \in {"outreach", "fellowshipOutreach"}
  /\ reports = {}
  /\ nextId = 1
  /\ inflight = EmptyBag
  /\ call = NoCall

SubmitVisits ==
  \E u \in VisitUsers, rm \in AccessDates, body \in VisitBodies :
    submitVisits(u, "F1", rm, body)

UpdateVisits ==
  \E u \in VisitUsers, id \in Ids, body \in VisitBodies :
    updateVisits(u, id, body)

NextVisits == SubmitVisits \/ UpdateVisits

SpecVisits == InitVisits /\ [][NextVisits]_vars

(***************************************************************************)
(* SpecBalance: submit and approve-reject of financial reports with their  *)
(* amounts.  reportingMonth is a Date with its year, so that the month     *)
(* before January is December of the year before.  Amounts are whole       *)
(* numbers and tithes are multiples of 100, so that the levies are whole.  *)
(***************************************************************************)
ZONAL_LEVY_PERCENT == 10
NATIONAL_LEVY_PERCENT == 5

\* Reporting months of the requests: any day of December 2024, January
\* 2025 or February 2025.
BalanceDates ==
  {NewDate(2024, 11, 1), NewDate(2025, 0, 15), NewDate(2025, 1, 1)}

\* getStartOfMonth on a Date with its year.
startOfMonth(date) == NewDate(date.year, date.month, 1)

\* Date.prototype.setMonth: the day of the month is kept and carries over.
setMonth(date, n) ==
  LET t == NewDate(date.year, n, date.date)
  IN  [t EXCEPT !.hours = date.hours, !.minutes = date.minutes,
                !.seconds = date.seconds, !.ms = date.ms]

\* Amounts of a request body; the other amounts take their default 0.
FinancialBodies ==
  [tithe : {0, 100}, offering : {50}, fellowshipProgramExpense : {0, 20}]

\* financialReportSchema.pre('save') of a new document.
financialPreSave(doc) ==
  LET totalIncome == doc.tithe + doc.offering
      baseExpenses == doc.fellowshipProgramExpense
      zonalLevy == (doc.tithe * ZONAL_LEVY_PERCENT) \div 100
      nationalLevy == (doc.tithe * NATIONAL_LEVY_PERCENT) \div 100
      totalExpense == baseExpenses + zonalLevy + nationalLevy
  IN  [doc EXCEPT !.totalIncome = totalIncome,
                  !.zonalLevy = zonalLevy,
                  !.nationalLevy = nationalLevy,
                  !.totalExpense = totalExpense,
                  !.balanceCarriedForward =
                     doc.balanceBroughtDown + totalIncome - totalExpense]

\* A lookup of the previous month's report whatever its status.
prevReportAnyStatus(store, fid, reportCalendarMonth) ==
  LET previousCalendarMonth ==
        setMonth(reportCalendarMonth, reportCalendarMonth.month - 1)
  IN  {r \in store : /\ r.fellowship = fid
                     /\ r.reportingMonth = startOfMonth(previousCalendarMonth)}

\* FinancialReport.findOne({fellowship, reportingMonth: start of the
\* previous calendar month, status: 'approved'})
prevApprovedReport(store, fid, reportCalendarMonth) ==
  LET previousCalendarMonth ==
        setMonth(reportCalendarMonth, reportCalendarMonth.month - 1)
  IN  {r \in store : /\ r.fellowship = fid
                     /\ r.reportingMonth = startOfMonth(previousCalendarMonth)
                     /\ r.status = "approved"}

balanceBroughtDown(store, fid, reportCalendarMonth) ==
  LET found == prevApprovedReport(store, fid, reportCalendarMonth) IN
  IF found # {} THEN (CHOOSE r \in found : TRUE).balanceCarriedForward ELSE 0

\* The document FinancialReport.create() stores.
NewFinancialReport(store, id, u, fid, rm, body) ==
  financialPreSave(
    [id              |-> id,
     fellowship      |-> fid,
     reportingMonth  |-> startOfMonth(rm),
     submittedBy     |-> u,
     status          |-> "pending",
     approvedBy      |-> None,
     approvalDate    |-> None,
     rejectionReason |-> None,
     tithe           |-> body.tithe,
     offering        |-> body.offering,
     fellowshipProgramExpense |-> body.fellowshipProgramExpense,
     zonalLevy       |-> 0,
     nationalLevy    |-> 0,
     totalIncome     |-> 0,
     totalExpense    |-> 0,
     balanceBroughtDown    |-> balanceBroughtDown(store, fid, startOfMonth(rm)),
     balanceCarriedForward |-> 0])

\* Outcome of submitFinancialReport for a body with all required fields
\* and a valid date.
FinancialSubmitOutcome(store, id, u, fid, rm, body) ==
  IF UserRole[u] \notin SubmitRoles("financial") THEN "forbidden_route"
  ELSE IF SubmitNotAuthorized("financial", u, fid) THEN "not_authorized"
  ELSE IF \E r \in store : r.fellowship = fid /\ r.reportingMonth = startOfMonth(rm)
    THEN "already_exists"
  ELSE CreateOutcome("financial", store, NewFinancialReport(store, id, u, fid, rm, body))

submitFinancialReport(u, fid, rm, body) ==
  /\ nextId <= MaxReports
  /\ FinancialSubmitOutcome(reports, nextId, u, fid, rm, body) = "ok"
  /\ reports' = reports \cup {NewFinancialReport(reports, nextId, u, fid, rm, body)}
  /\ nextId' = nextId + 1
  /\ UNCHANGED <<call, family, inflight>>

\* report.save() of approve-reject: no amount is modified, so the hook
\* recalculates nothing.
approveRejectFinancialReport(u, id, decision, reason) ==
  /\ ApproveChecks("financial", reports, u, id, decision, reason) = "ok"
  /\ reports' = (reports \ {Doc(id)})
                  \cup {ApproveAssign(Doc(id), u, decision, reason)}
  /\ UNCHANGED <<call, family, nextId, inflight>>

InitBalance ==
  /\ family = "financial"
  /\ reports = {}
  /\ nextId = 1
  /\ inflight = EmptyBag
  /\ call = NoCall

SubmitFinancial ==
  \E u \in {"p1", "p2", "sa"}, fid \in {"F1", "F2"}, rm \in BalanceDates,
     body \in FinancialBodies :
    submitFinancialReport(u, fid, rm, body)

ApproveRejectFinancial ==
  \E u \in {"acc", "sa"}, id \in Ids, decision \in {"approved", "rejected"} :
    approveRejectFinancialReport(u, id, decision, "late")

NextBalance == SubmitFinancial \/ ApproveRejectFinancial

SpecBalance == InitBalance /\ [][NextBalance]_vars

(***************************************************************************)
(* Analytics: getOverallSummary and getMonthlyTrends over the financial    *)
(* collection (the activity and the fellowship outreach collection go      *)
(* through the same match stages).  Query parameters are strings; the      *)
(* clock of the request is an input.  call records the request and what    *)
(* the handler computed.  The process runs in UTC, so $month of a stored   *)
(* reportingMonth is its local month.                                      *)
(***************************************************************************)
ANALYTICS_VIEW_ROLES ==
  {"super_admin", "administrator", "national_coordinator", "accountant",
   "assistant_national_coordinator_secondary_school_outreach",
   "zonal_coordinator", "fellowship_president_rcf", "fellowship_president_rccf"}

MonthParams == {"undefined", "abc", "1", "2"}

YearParams == {"undefined", "2025"}

\* parseInt of a query parameter: NaN for undefined and for a string
\* without leading digits.
ParsesToNaN(s) == s \in {"undefined", "abc"}

parseInt(s) ==
  CASE s = "1" -> 1 [] s = "2" -> 2 [] s = "2025" -> 2025

\* parseInt(year) || currentYear
queryYear(year, now) ==
  IF ParsesToNaN(year) \/ parseInt(year) = 0 THEN now.year ELSE parseInt(year)

\* (parseInt(month) - 1) || currentMonth: NaN and 0 are falsy.
queryMonth(month, now) ==
  IF ParsesToNaN(month) \/ parseInt(month) - 1 = 0 THEN now.month
  ELSE parseInt(month) - 1

\* A role filter in which a president's fellowshipId parameter replaces
\* their own fellowship.
FellowshipFilterByQuery(u, specificFellowshipId, specificZoneId) ==
  LET role == UserRole[u] IN
  IF StrIncludes(role, "fellowship_president") /\ UserFellowship[u] # None
    THEN [null |-> FALSE, denied |-> FALSE, all |-> FALSE,
          ids |-> IF specificFellowshipId # None THEN {specificFellowshipId}
                  ELSE {UserFellowship[u]}]
  ELSE IF StrIncludes(role, "zonal_coordinator") /\ UserZone[u] # None
    THEN [null |-> fellowshipsInZone(UserZone[u]) = {}, denied |-> FALSE,
          all |-> FALSE,
          ids |-> fellowshipsInZone(UserZone[u])]
  ELSE [null |-> TRUE, denied |-> TRUE, all |-> FALSE, ids |-> {}]

\* The role-based filter of buildCommonMatchStages and getMonthlyTrends:
\* null (nothing to show; denied when no role branch applies), every
\* fellowship, or the fellowships of ids.
\* A fellowshipId parameter stays a string in the pipeline, which
\* aggregate() does not cast, so it equals no stored ObjectId.
FellowshipFilter(u, specificFellowshipId, specificZoneId) ==
  LET role == UserRole[u]
      isAdminOrSuperAdmin ==
        StrIncludes(role, "super_admin") \/ StrIncludes(role, "administrator")
      isCoordinator ==
        \/ StrIncludes(role, "national_coordinator")
        \/ StrIncludes(role, "assistant_national_coordinator_finance")
        \/ StrIncludes(role, "assistant_national_coordinator_secondary_school_outreach")
  IN
  IF StrIncludes(role, "fellowship_president") /\ UserFellowship[u] # None
    THEN [null |-> FALSE, denied |-> FALSE, all |-> FALSE, ids |-> {UserFellowship[u]}]
  ELSE IF StrIncludes(role, "zonal_coordinator") /\ UserZone[u] # None
    THEN [null |-> fellowshipsInZone(UserZone[u]) = {}, denied |-> FALSE,
          all |-> FALSE,
          ids |-> fellowshipsInZone(UserZone[u])]
  ELSE IF isAdminOrSuperAdmin \/ isCoordinator
    THEN IF specificFellowshipId # None
           THEN [null |-> FALSE, denied |-> FALSE, all |-> FALSE, ids |-> {}]
         ELSE IF specificZoneId # None
           THEN [null |-> fellowshipsInZone(specificZoneId) = {}, denied |-> FALSE,
          all |-> FALSE,
                 ids |-> fellowshipsInZone(specificZoneId)]
         ELSE [null |-> FALSE, denied |-> FALSE, all |-> TRUE, ids |-> {}]
  ELSE [null |-> TRUE, denied |-> TRUE, all |-> FALSE, ids |-> {}]

InFilter(filter, r) == filter.all \/ r.fellowship \in filter.ids

\* $match {reportingMonth: {$gte, $lte}, status: 'approved'} and the
\* fellowship $match of buildCommonMatchStages.
SummaryMatch(store, filter, year, month) ==
  LET period == getMonthlyPeriodDates(year, month) IN
  {r \in store :
     /\ ~Before(r.reportingMonth, period.periodStartDate)
     /\ ~Before(period.periodEndDate, r.reportingMonth)
     /\ r.status = "approved"
     /\ InFilter(filter, r)}

\* $match {reportingMonth: {$gte: 1 January, $lt: 1 January of the next
\* year}, status: 'approved'} and the fellowship $match of getMonthlyTrends.
TrendsMatch(store, filter, year) ==
  {r \in store :
     /\ ~Before(r.reportingMonth, NewDate(year, 0, 1))
     /\ Before(r.reportingMonth, NewDate(year + 1, 0, 1))
     /\ r.status = "approved"
     /\ InFilter(filter, r)}

\* {$sum: "$<field>"}: a document without the field adds nothing.
RECURSIVE Sum(_, _)
Sum(docs, field) ==
  IF docs = {} THEN 0
  ELSE LET r == CHOOSE x \in docs : TRUE
       IN  (IF field \in DOMAIN r THEN r[field] ELSE 0) + Sum(docs \ {r}, field)

IdsOf(docs) == {r.id : r \in docs}

getOverallSummary(u, month, year, fellowshipId, zoneId, now) ==
  LET y == queryYear(year, now)
      mo == queryMonth(month, now)
      filter == FellowshipFilter(u, fellowshipId, zoneId)
      matched == IF filter.null THEN {} ELSE SummaryMatch(reports, filter, y, mo)
      totalIncome == Sum(matched, "totalIncome")
      totalExpenditure == Sum(matched, "totalExpenditure")
  IN  /\ UserRole[u] \in ANALYTICS_VIEW_ROLES
      /\ call' = [fn |-> "summary", user |-> u, month |-> month, year |-> year,
                  fellowshipId |-> fellowshipId, zoneId |-> zoneId,
                  now |-> now, status |-> 200,
                  summaryFor |-> <<y, mo>>,
                  contributors |-> IdsOf(matched),
                  totalIncome |-> totalIncome,
                  totalExpenditure |-> totalExpenditure,
                  balance |-> totalIncome - totalExpenditure]
      /\ UNCHANGED <<family, reports, nextId, inflight>>

\* One entry of monthlyData: the $group of the month, or the initial zeros.
MonthEntry(matched, i) ==
  LET docs == {r \in matched : r.reportingMonth.month + 1 = i} IN
  [month |-> i,
   totalIncome |-> Sum(docs, "totalIncome"),
   totalExpenditure |-> Sum(docs, "totalExpenditure")]

getMonthlyTrends(u, year, fellowshipId, zoneId, now) ==
  LET y == queryYear(year, now)
      filter == FellowshipFilter(u, fellowshipId, zoneId)
      denied == filter.denied
      matched == IF filter.null THEN {} ELSE TrendsMatch(reports, filter, y)
  IN  /\ UserRole[u] \in ANALYTICS_VIEW_ROLES
      /\ call' = [fn |-> "trends", user |-> u, year |-> year, now |-> now,
                  fellowshipId |-> fellowshipId, zoneId |-> zoneId,
                  status |-> IF denied THEN 403 ELSE 200,
                  contributors |-> IdsOf(matched),
                  monthlyData |-> IF denied THEN << >>
                                  ELSE [i \in 1..12 |-> MonthEntry(matched, i)]]
      /\ UNCHANGED <<family, reports, nextId, inflight>>

AnalyticsUsers == {"sa", "acc", "zc1", "p1"}

\* fellowshipId and zoneId of a query: neither, a fellowship, a zone.
ScopeParams == {<<None, None>>, <<"F2", None>>, <<None, "Z2">>}

\* The clock of a request.
CurrentDates == {NewDate(2026, 1, 10)}

\* reportingMonth of a submission: January or February 2025.
AnalyticsDates == {NewDate(2025, 0, 15), NewDate(2025, 1, 1)}

AnalyticsBody == [tithe |-> 100, offering |-> 50, fellowshipProgramExpense |-> 20]

SubmitForAnalytics ==
  \E u \in {"p1", "p2"}, rm \in AnalyticsDates :
    submitFinancialReport(u, UserFellowship[u], rm, AnalyticsBody)

DecideForAnalytics ==
  \E id \in Ids, decision \in {"approved", "rejected"} :
    approveRejectFinancialReport("acc", id, decision, "late")

Summary ==
  \E u \in AnalyticsUsers, month \in MonthParams, year \in YearParams,
     scope \in ScopeParams, now \in CurrentDates :
    getOverallSummary(u, month, year, scope[1], scope[2], now)

Trends ==
  \E u \in AnalyticsUsers, year \in YearParams, scope \in ScopeParams,
     now \in CurrentDates :
    getMonthlyTrends(u, year, scope[1], scope[2], now)

NextAnalytics == SubmitForAnalytics \/ DecideForAnalytics \/ Summary \/ Trends

SpecAnalytics == InitBalance /\ [][NextAnalytics]_vars

(***************************************************************************)
(* Properties                                                              *)
(***************************************************************************)
Decided(r) == r.status \in {"approved", "rejected"}

Elevated(u) == UserRole[u] \in {"super_admin", "administrator"}

SameKey(fam, r, doc) ==
  ScopeOf(fam, r) = ScopeOf(fam, doc) /\ r.reportingMonth = doc.reportingMonth

Content(r) == <<r.fieldA, r.fieldB>>

Decision(r) == <<r.status, r.approvedBy, r.rejectionReason>>

\* C1: with requests processed one at a time, the status of a report only ever
\* changes from pending to approved or from pending to rejected; the status of
\* an approved or rejected report never changes again.
C1_StatusTerminal ==
  [][\A r \in reports : \A r2 \in reports' :
       (r2.id = r.id /\ r2.status # r.status)
         => (r.status = "pending" /\ r2.status \in {"approved", "rejected"})]_vars

C1_Witness ==
  /\ \E r \in reports : r.status = "approved" /\ r.fieldA = "v1"
  /\ \E r \in reports : r.status = "rejected"

\* C2: a report is decided once: after a report is approved or rejected, its
\* status, approvedBy and rejectionReason are never written again, also when
\* two approve-reject handlers read the pending report before either saves.
C2_DecidedOnce ==
  [][\A r \in reports : \A r2 \in reports' :
       (r2.id = r.id /\ Decided(r)) => Decision(r2) = Decision(r)]_vars

\* C3 as claimed: on an approved or rejected report an approve-reject request
\* of every actor, for either decision, is answered 'already decided'.
C3_ConflictForEveryActor ==
  \A r \in reports : \A u \in Users, d \in {"approved", "rejected"}, rs \in Reasons :
    Decided(r) => ApproveChecks(family, reports, u, r.id, d, rs) = "already_decided"

\* C3 amended: on an approved or rejected report an approve-reject request for
\* either decision by an actor that the route's role list admits is answered
\* with the conflict error 'already decided'; an actor the role list does not
\* admit is answered with an authorization error; and the fields an
\* approve-reject request writes (like every field but the payload) keep their
\* value once the report is decided.
C3_ConflictForAdmittedActor ==
  /\ [](\A r \in reports : \A u \in Users, d \in {"approved", "rejected"}, rs \in Reasons :
          Decided(r) =>
            LET o == ApproveChecks(family, reports, u, r.id, d, rs) IN
            IF UserRole[u] \in ApproveRoles(family)
              THEN o = "already_decided" /\ Kind(o) = "ConflictError"
              ELSE Kind(o) = "AuthorizationError")
  /\ [][\A r \in reports : Decided(r) =>
          \E r2 \in reports' :
            \A f \in Fields \ {"fieldA", "fieldB"} : r2[f] = r[f]]_vars

C3_Witness ==
  \E r \in reports :
    /\ Decided(r)
    /\ \E u \in Users :
         /\ ApproveAuthorization(family, u, r) # "ok"
         /\ ApproveChecks(family, reports, u, r.id, "approved", None) = "already_decided"

\* C4: every collection holds at most one report per (scope, reportingMonth),
\* the scope being the owning fellowship or, for outreach, the submitter; also
\* when two submit handlers pass the findOne pre-check before either creates.
C4_OnePerScopeAndMonth ==
  \A r1 \in reports, r2 \in reports :
    r1.id # r2.id => ~SameKey(family, r1, r2)

C4_Witness ==
  /\ Cardinality(reports) = 2
  /\ \E r \in reports : \E req \in BagToSet(inflight) :
       req.op = "submit" /\ SameKey(family, r, req.doc)

\* C5: a submit for a (scope, reportingMonth) that already holds a report is
\* answered with a ConflictError, also when the duplicate is caught by the
\* unique index at create time instead of by the pre-check.
C5_DuplicateIsConflict ==
  \A req \in BagToSet(inflight) :
    (req.op = "submit" /\ \E r \in reports : SameKey(family, r, req.doc))
      => Kind(CreateOutcome(family, reports, [req.doc EXCEPT !.id = nextId]))
           = "ConflictError"

\* C6: a pending report has approvedBy, approvalDate and rejectionReason unset;
\* a rejected report has a non-empty rejectionReason and approvedBy set; an
\* approved report has rejectionReason unset and approvedBy set.
C6_ApprovalFields ==
  \A r \in reports :
    /\ r.status = "pending" =>
         r.approvedBy = None /\ r.approvalDate = None /\ r.rejectionReason = None
    /\ r.status = "rejected" =>
         r.rejectionReason \notin {None, ""} /\ r.approvedBy # None
    /\ r.status = "approved" =>
         r.rejectionReason = None /\ r.approvedBy # None

\* C7: an approve-reject request with decision rejected and no or an empty
\* rejectionReason, which with a reason would have been accepted, is answered
\* with a validation error, and no such request writes: a report becomes
\* rejected only together with a non-empty rejectionReason, and a pending
\* report keeps approvedBy and approvalDate unset.
C7_RejectNeedsReason ==
  \A r \in reports :
    /\ \A u \in Users, rs \in {None, ""} :
         LET o == ApproveChecks(family, reports, u, r.id, "rejected", rs) IN
         /\ o # "ok"
         /\ ApproveChecks(family, reports, u, r.id, "rejected", "late") = "ok"
              => o = "reason_required" /\ Kind(o) = "ValidationError"
    /\ r.status = "rejected" => r.rejectionReason \notin {None, ""}
    /\ r.status = "pending" => r.approvedBy = None /\ r.approvalDate = None

C7_Witness ==
  \E r \in reports : \E u \in Users :
    /\ r.status = "pending"
    /\ ApproveChecks(family, reports, u, r.id, "rejected", "") = "reason_required"
    /\ \E r2 \in reports : r2.status = "rejected"

\* C8: an update of an existing report is accepted only if the actor is
\* super_admin or administrator, or is the report's submitter while the report
\* is pending; every other update of an existing report is answered with an
\* authorization error and writes nothing, so a non-elevated actor never
\* changes an approved or rejected report.
C8_UpdateAuthorization ==
  /\ [](HasUpdateRoute(family) =>
          \A r \in reports : \A u \in Users :
            LET o == UpdateChecks(family, reports, u, r.id)
                allowed == Elevated(u) \/ (r.submittedBy = u /\ r.status = "pending")
            IN /\ o = "ok" => allowed
               /\ ~allowed => o = "not_authorized" /\ Kind(o) = "AuthorizationError")
  /\ [][\A r \in reports : \A u \in Users, a \in {None, "v1"}, b \in {None, "v1"} :
          ~(Elevated(u) \/ (r.submittedBy = u /\ r.status = "pending"))
            => ~updateReport(u, r.id, a, b)]_vars

C8_Witness ==
  \E r \in reports :
    /\ Decided(r)
    /\ ~Elevated(r.submittedBy)
    /\ r.fieldA = "v1"
    /\ UpdateChecks(family, reports, r.submittedBy, r.id) = "not_authorized"

\* C9 as claimed: the content of an approved or rejected report never changes,
\* whoever sends the update.
C9_ImmutableForEveryActor ==
  [][\A r \in reports : \A r2 \in reports' :
       (r2.id = r.id /\ Decided(r)) => Content(r2) = Content(r)]_vars

\* C9 amended: an update of an approved or rejected report by any actor other
\* than super_admin or administrator is answered with an authorization error
\* and leaves the content unchanged; the content of a decided report changes
\* only by an update of a super_admin or administrator.
C9_ImmutableExceptElevated ==
  /\ [](HasUpdateRoute(family) =>
          \A r \in reports : \A u \in Users :
            (Decided(r) /\ ~Elevated(u))
              => UpdateChecks(family, reports, u, r.id) = "not_authorized")
  /\ [][\A r \in reports : \A u \in Users, a \in {None, "v1"}, b \in {None, "v1"} :
          (Decided(r) /\ ~Elevated(u)) => ~updateReport(u, r.id, a, b)]_vars

C9_Witness ==
  \E r \in reports : Decided(r) /\ ~Elevated(r.submittedBy) /\ r.fieldB = "v1"

\* C10: an accepted update leaves submittedBy, status, approvedBy,
\* approvalDate, rejectionReason, reportingMonth and the owning fellowship of
\* the report unchanged, leaves every payload field absent from the body
\* unchanged, and leaves every other report unchanged (a report that is still
\* in the store as it was has not been written to).
C10_UpdateFrame ==
  [][\A old \in reports :
       \/ old \in reports'
       \/ \A u \in Users, a \in {None, "v1"}, b \in {None, "v1"} :
            updateReport(u, old.id, a, b) =>
              /\ \A r \in reports : r.id # old.id => r \in reports'
              /\ \E new \in reports' :
                   /\ new.id = old.id
                   /\ \A f \in Fields \ {"fieldA", "fieldB"} : new[f] = old[f]
                   /\ a = None => new.fieldA = old.fieldA
                   /\ b = None => new.fieldB = old.fieldB]_vars

C10_Witness ==
  \E r \in reports : r.fieldA = "v0" /\ r.fieldB = "v1" /\ Decided(r)

ZoneScoped(u) == StrIncludes(UserRole[u], "zonal_coordinator") /\ UserZone[u] # None

ElevatedApprover(u) ==
  UserRole[u] \in {"super_admin", "administrator", "national_coordinator"}

\* C12: in the activity and fellowship-outreach families, an approve-reject
\* request (decision approved or rejected) of a coordinator assigned to a zone
\* is accepted only for a report of a fellowship of that zone; on a pending
\* report of a fellowship of another zone it is answered with an
\* authorization error and writes nothing, so every report decided by such a
\* coordinator belongs to a fellowship of the coordinator's zone.
C12_ZoneScopedApproval ==
  family \in {"activity", "fellowshipOutreach"} =>
    \A r \in reports :
      /\ \A u \in Users, d \in {"approved", "rejected"}, rs \in Reasons :
           ZoneScoped(u) =>
             LET o == ApproveChecks(family, reports, u, r.id, d, rs) IN
             /\ o = "ok" => UserZone[u] = FellowshipZone[r.fellowship]
             /\ (r.status = "pending" /\ UserZone[u] # FellowshipZone[r.fellowship])
                  => o = "not_authorized" /\ Kind(o) = "AuthorizationError"
      /\ (r.approvedBy # None /\ ZoneScoped(r.approvedBy))
           => UserZone[r.approvedBy] = FellowshipZone[r.fellowship]

C12_Witness ==
  /\ family \in {"activity", "fellowshipOutreach"}
  /\ \E r \in reports : r.approvedBy = "zc1" /\ r.status = "rejected"
  /\ \E r \in reports : r.status = "pending" /\ FellowshipZone[r.fellowship] # UserZone["zc1"]

\* C13 (as claimed): in every family, every approve-reject request of a
\* super_admin, administrator or national_coordinator on a pending report, with
\* decision approved or rejected (and a reason when rejecting), is accepted.
C13_ElevatedApproveEveryFamily ==
  \A r \in reports : \A u \in Users :
    (ElevatedApprover(u) /\ r.status = "pending") =>
      /\ ApproveChecks(family, reports, u, r.id, "approved", None) = "ok"
      /\ ApproveChecks(family, reports, u, r.id, "rejected", "late") = "ok"

\* C13 (amended): the same in the activity, fellowship-outreach and outreach
\* families; the financial route admits the accountant only, and there these
\* roles are answered with an authorization error.
C13_ElevatedApprove ==
  \A r \in reports : \A u \in Users :
    (ElevatedApprover(u) /\ r.status = "pending") =>
      LET oa == ApproveChecks(family, reports, u, r.id, "approved", None)
          orj == ApproveChecks(family, reports, u, r.id, "rejected", "late")
      IN IF family = "financial"
           THEN oa = "forbidden_route" /\ orj = "forbidden_route"
                /\ Kind(oa) = "AuthorizationError"
           ELSE oa = "ok" /\ orj = "ok"

C13_Witness ==
  /\ family = "outreach"
  /\ \E r \in reports : r.approvedBy = "nc" /\ r.status = "approved"
  /\ \E r \in reports : r.status = "pending"

FellowshipOwned == {"activity", "financial", "fellowshipOutreach"}

President(u) == StrIncludes(UserRole[u], "fellowship_president")

\* C14: in the fellowship-owned families, the list request without filters of
\* a coordinator assigned to a zone is answered with exactly the stored
\* reports whose fellowship lies in that zone.
C14_ZoneListExact ==
  family \in FellowshipOwned =>
    \A u \in Accounts :
      ZoneScoped(u) =>
        /\ ListChecks(family, u) = "ok"
        /\ \A r \in reports :
             r \in ListResult(family, reports, u)
               <=> FellowshipZone[r.fellowship] = UserZone[u]
        /\ ListResult(family, reports, u) \subseteq reports

C14_Witness ==
  /\ family \in FellowshipOwned
  /\ \E r1, r2 \in reports :
       /\ FellowshipZone[r1.fellowship] = "Z1"
       /\ FellowshipZone[r2.fellowship] = "Z2"
       /\ ListResult(family, reports, "zc1") = {r1}
       /\ ListResult(family, reports, "zc2") = {r2}

C16_SubmitOwnScope ==
  family \in FellowshipOwned =>
    /\ \A r \in reports :
         President(r.submittedBy) => r.fellowship = UserFellowship[r.submittedBy]
    /\ \A u \in Accounts, fid \in Fellowships, rm \in AccessDates :
         (President(u) /\ UserFellowship[u] # fid) =>
           Kind(SubmitChecks(family, reports, u, fid, rm, "v0")) = "AuthorizationError"

\* C11: every stored fellowship-outreach report carries totals equal to what
\* its current detailsOfVisits yields: the number of visits and the sums of
\* studentsReached, newConverts and materialsDistributed; a total sent by the
\* client is never what is stored.
C11_TotalsDerived ==
  \A r \in reports :
    LET n == Len(r.detailsOfVisits)
        sum(c) == LET upTo[k \in 0..n] ==
                        IF k = 0 THEN 0 ELSE upTo[k - 1] + r.detailsOfVisits[k][c]
                  IN upTo[n]
    IN /\ n <= MaxVisits
       /\ r.totalSchoolsVisited = n
       /\ r.totalStudentsReached = sum("studentsReached")
       /\ r.totalNewConverts = sum("newConverts")
       /\ r.totalMaterialsDistributed = sum("materialsDistributed")
       /\ r.totalSchoolsVisited # ClientTotal /\ r.totalStudentsReached # ClientTotal

C11_Witness ==
  \E r \in reports :
    /\ r.updatedAt = "updated"
    /\ Len(r.detailsOfVisits) = 2
    /\ r.totalStudentsReached = 3
    /\ r.totalMaterialsDistributed = 3

(***************************************************************************)
(* Calendar facts the date claims are stated against, computed without the *)
(* day count from 1970 the helpers rest on.                                *)
(***************************************************************************)
\* Weekday of a calendar date by the month-offset congruence; 0 is Sunday.
Weekday(y, m, d) ==
  LET t == <<0, 3, 2, 5, 0, 3, 5, 1, 4, 6, 2, 4>>
      yy == IF m < 2 THEN y - 1 ELSE y
  IN  (yy + (yy \div 4) - (yy \div 100) + (yy \div 400) + t[m + 1] + d) % 7

\* The days of month (y, m) that fall on weekday w.
DaysOn(y, m, w) == {d \in 1..DaysInMonth(y, m) : Weekday(y, m, d) = w}

Midnight(d) == d.hours = 0 /\ d.minutes = 0 /\ d.seconds = 0 /\ d.ms = 0

EndOfDay(d) ==
  d.hours = 23 /\ d.minutes = 59 /\ d.seconds = 59 /\ d.ms = 999

PrevYear(y, m) == IF m = 0 THEN y - 1 ELSE y

PrevMonth(m) == IF m = 0 THEN 11 ELSE m - 1

NthDayDone == call.fn = "getNthDayOfMonth" /\ call.done

PeriodDone(fams) ==
  call.fn = "getPeriodDates" /\ call.done /\ family \in fams

\* C18: getNthDayOfMonth returns the date of the month that falls on the
\* requested weekday and has exactly occurrence-1 earlier dates of that
\* weekday in the month, whenever the month has that many such dates, and
\* null otherwise; for occurrence 2 and 3 it never returns null.
C18_NthDayOfMonth ==
  NthDayDone =>
    LET on == DaysOn(call.year, call.month, call.dayOfWeek)
        r == call.result
    IN  /\ Cardinality(on) >= call.occurrence =>
             /\ ~IsNull(r)
             /\ r.year = call.year
             /\ r.month = call.month
             /\ r.date \in on
             /\ Cardinality({e \in on : e < r.date}) = call.occurrence - 1
        /\ Cardinality(on) < call.occurrence => IsNull(r)
        /\ call.occurrence \in {2, 3} => ~IsNull(r)

\* C18 witness: the fifth Sunday of March 2025 was asked for and found on
\* the 30th.
C18_Witness ==
  /\ NthDayDone
  /\ call.year = 2025 /\ call.month = 2
  /\ call.dayOfWeek = 0 /\ call.occurrence = 5
  /\ call.result.date = 30

\* C19: the financial and the outreach resolver return midnight of the
\* third Sunday of the preceding month (December of the year before for
\* January) and the last millisecond of the second Sunday of the month
\* itself; March 2025 gives 16 February to 9 March; the start is strictly
\* before the end.
C19_PeriodRuleA ==
  PeriodDone({"financial", "outreach"}) =>
    LET y == call.year
        m == call.monthIndex
        s == call.result.periodStartDate
        e == call.result.periodEndDate
    IN  /\ ~call.result.threw
        /\ s.year = PrevYear(y, m) /\ s.month = PrevMonth(m)
        /\ s.date \in DaysOn(s.year, s.month, 0)
        /\ Cardinality({d \in DaysOn(s.year, s.month, 0) : d < s.date}) = 2
        /\ Midnight(s)
        /\ e.year = y /\ e.month = m
        /\ e.date \in DaysOn(y, m, 0)
        /\ Cardinality({d \in DaysOn(y, m, 0) : d < e.date}) = 1
        /\ EndOfDay(e)
        /\ (y = 2025 /\ m = 2) =>
             /\ <<s.year, s.month, s.date>> = <<2025, 1, 16>>
             /\ <<e.year, e.month, e.date>> = <<2025, 2, 9>>
        /\ Before(s, e)

\* C19 witness: the financial resolver has resolved January 2025 and the
\* period starts in December 2024.
C19_Witness ==
  /\ PeriodDone({"financial"})
  /\ call.year = 2025 /\ call.monthIndex = 0
  /\ call.result.periodStartDate.year = 2024
  /\ call.result.periodStartDate.month = 11

ResponseOps == {"submit", "list", "getById", "update", "approveReject"}

\* C17: every success response of submit, list, getById, update and
\* approve-reject carries, for each report it returns, the stored report and
\* both periodStartDate and periodEndDate resolved from the report's
\* reportingMonth.
C17_ResponsesCarryPeriod ==
  call.fn \in ResponseOps =>
    \A e \in call.body :
      /\ e.report \in reports
      /\ {"periodStartDate", "periodEndDate"} \subseteq DOMAIN e
      /\ LET p == PeriodDatesOf(family, ReportYear, e.report.reportingMonth[2] - 1)
         IN  /\ e.periodStartDate = p.periodStartDate
             /\ e.periodEndDate = p.periodEndDate

\* C21: a delete request removes a report only if the actor is super_admin
\* or administrator, or the actor is the report's submitter and the report
\* is pending; a non-elevated actor is refused on an approved or rejected
\* report; a refused delete leaves the store unchanged.
C21_DeleteAuthorization ==
  /\ [](HasDeleteRoute(family) =>
          \A r \in reports : \A u \in DeleteUsers :
            (Decided(r) /\ ~Elevated(u)) =>
              DeleteChecks(reports, u, r.id) = "not_authorized")
  /\ [][(call' # call /\ call'.fn = "delete") =>
          LET u == call'.user IN
          /\ reports' \subseteq reports
          /\ \A r \in reports \ reports' :
               /\ r.id = call'.id
               /\ Elevated(u) \/ (r.submittedBy = u /\ r.status = "pending")
          /\ call'.outcome # "ok" => reports' = reports]_vars

\* C21 witness: president p1 has deleted the pending report they submitted.
C21_Witness ==
  /\ call.fn = "delete" /\ call.user = "p1" /\ call.outcome = "ok"
  /\ reports = {}
  /\ nextId = 2

\* C22: in the outreach and the fellowship outreach family every stored
\* report has a non-empty detailsOfVisits list whose items all have a
\* schoolName and a visitDate; a submit or update carrying an empty list
\* or a malformed item writes nothing and is refused, with a validation
\* error unless an authorization, not-found or conflict error comes first.
C22_VisitsWellFormed ==
  /\ [](\A r \in reports : r.fieldA # << >> /\ ~AnyIncomplete(r.fieldA))
  /\ [][call'.shape \in {"empty", "malformed"} =>
          /\ Kind(call'.outcome) \in {"ValidationError", "AuthorizationError",
                                     "NotFoundError", "ConflictError"}
          /\ reports' = reports]_vars

\* The answer to a submit request: the outcome of the handler's checks, then
\* of Model.create.
SubmitOutcome(fam, store, id, u, fid, rm, a) ==
  LET checks == SubmitChecks(fam, store, u, fid, rm, a) IN
  IF checks # "ok" THEN checks
  ELSE CreateOutcome(fam, store, NewReport(fam, id, u, fid, rm, a, a))

\* C23: the uniqueness key of a financial report is (fellowship,
\* reportingMonth): a valid submit by a president for their own fellowship
\* is refused only when a financial report already exists for that
\* fellowship and month, so two fellowships can hold reports for the same
\* month.
C23_FinancialKey ==
  family = "financial" =>
    \A u \in Users : \A rm \in DateInputs :
      (/\ StrIncludes(UserRole[u], "fellowship_president")
       /\ UserFellowship[u] # None
       /\ rm[1] = "date"
       /\ SubmitOutcome("financial", reports, nextId, u, UserFellowship[u], rm, "v0")
            # "ok")
        => existingReport("financial", reports, UserFellowship[u],
                          getStartOfMonth(rm)) # {}

\* The calendar month before (y, m) is month m of year y.
MonthBefore(a, b) ==
  a.year = PrevYear(b.year, b.month) /\ a.month = PrevMonth(b.month)

\* C24: a newly submitted financial report of fellowship F for month M has
\* balanceBroughtDown equal to balanceCarriedForward of F's report for the
\* calendar month before M (December of the year before for January) when
\* that report is approved at submit time, and 0 otherwise; a valid submit
\* is never refused for lack of a previous report.
C24_BalanceBroughtDown ==
  /\ [][nextId' = nextId + 1 =>
          \A r \in reports' \ reports :
            LET prev == {p \in reports : /\ p.fellowship = r.fellowship
                                         /\ MonthBefore(p.reportingMonth,
                                                        r.reportingMonth)
                                         /\ p.status = "approved"}
            IN  /\ prev # {} =>
                     \A p \in prev : r.balanceBroughtDown = p.balanceCarriedForward
                /\ prev = {} => r.balanceBroughtDown = 0]_vars
  /\ [](\A u \in {"p1", "p2"} : \A rm \in BalanceDates : \A body \in FinancialBodies :
          (nextId <= MaxReports
           /\ \A r \in reports : r.reportingMonth # startOfMonth(rm))
            => FinancialSubmitOutcome(reports, nextId, u, UserFellowship[u], rm, body)
                 = "ok")

\* C24 witness: the January 2025 report of F1 was submitted after the
\* December 2024 report was approved and opens with its closing balance.
C24_Witness ==
  \E r \in reports : \E p \in reports :
    /\ r.fellowship = "F1" /\ p.fellowship = "F1"
    /\ r.reportingMonth = NewDate(2025, 0, 1)
    /\ p.reportingMonth = NewDate(2024, 11, 1)
    /\ p.status = "approved"
    /\ p.balanceCarriedForward > 0
    /\ r.balanceBroughtDown = p.balanceCarriedForward

\* C25: whenever a fellowship has approved financial reports for two
\* consecutive calendar months, balanceBroughtDown of the later equals
\* balanceCarriedForward of the earlier, whatever the order of the submits
\* and approvals.
C25_BalanceContinuity ==
  \A r \in reports : \A p \in reports :
    (/\ p.fellowship = r.fellowship
     /\ MonthBefore(p.reportingMonth, r.reportingMonth)
     /\ p.status = "approved" /\ r.status = "approved")
      => r.balanceBroughtDown = p.balanceCarriedForward

\* The year a request asks for: the year parameter, or the clock's year
\* when the parameter is absent.
AskedYear(c) == IF ParsesToNaN(c.year) THEN c.now.year ELSE parseInt(c.year)

\* The reports a summary or trends answer drew its figures from.
Contributors == {r \in reports : r.id \in call.contributors}

\* A step in which an analytics handler answers from the stored reports.
Answers(fn) == call'.fn = fn /\ reports' = reports

\* C26: a report contributes to a summary or a monthly-trend figure only if
\* it is approved and its fellowship lies in the requester's scope: a
\* fellowship president's own fellowship, a zonal coordinator's own zone,
\* whatever fellowshipId or zoneId the query carries; pending and rejected
\* reports never contribute.
C26_ContributorsInScope ==
  [][(Answers("summary") \/ Answers("trends")) =>
       \A r \in Contributors' :
         /\ r.status = "approved"
         /\ StrIncludes(UserRole[call'.user], "fellowship_president")
              => r.fellowship = UserFellowship[call'.user]
         /\ StrIncludes(UserRole[call'.user], "zonal_coordinator")
              => FellowshipZone[r.fellowship] = UserZone[call'.user]]_vars

\* C26 witness: a president who asked for another fellowship's figures got
\* a trend built from their own approved report, while an approved report
\* of the fellowship they asked for is stored and is not part of it.
C26_Witness ==
  /\ call.fn = "trends" /\ call.user = "p1" /\ call.fellowshipId = "F2"
  /\ Contributors # {}
  /\ \E r \in reports : /\ r.fellowship = "F2" /\ r.status = "approved"
                        /\ r.reportingMonth.year = AskedYear(call)
                        /\ r \notin Contributors

\* C27: a summary asked for month m (1..12) and year y is built from exactly
\* the approved reports in the requester's scope whose reportingMonth lies
\* in calendar month m of year y, January included; the clock's month is
\* used only when the month parameter is absent or not a number.
C27_SummaryMonth ==
  [][(Answers("summary") /\ ~ParsesToNaN(call'.month)) =>
       LET filter == FellowshipFilter(call'.user, call'.fellowshipId, call'.zoneId)
       IN  Contributors' =
             {r \in reports : /\ r.status = "approved"
                              /\ ~filter.null /\ InFilter(filter, r)
                              /\ r.reportingMonth.year = AskedYear(call')
                              /\ r.reportingMonth.month + 1 = parseInt(call'.month)}]_vars

\* C28: in a summary and in every month of a trend, totalExpenditure is the
\* sum of totalExpense of the approved financial reports matching period
\* and scope, totalIncome the sum of their totalIncome, and the summary's
\* balance is totalIncome minus totalExpenditure.
C28_FinancialFigures ==
  /\ [][Answers("summary") =>
          /\ call'.totalIncome = Sum(Contributors', "totalIncome")
          /\ call'.totalExpenditure = Sum(Contributors', "totalExpense")
          /\ call'.balance = call'.totalIncome - call'.totalExpenditure]_vars
  /\ [][(Answers("trends") /\ call'.status = 200) =>
          \A i \in 1..12 :
            LET docs == {r \in Contributors' : r.reportingMonth.month + 1 = i} IN
            /\ call'.monthlyData[i].totalIncome = Sum(docs, "totalIncome")
            /\ call'.monthlyData[i].totalExpenditure = Sum(docs, "totalExpense")]_vars

\* C29: the display period of an activity report runs from midnight of the
\* third Sunday of the month before its reporting month to the last
\* millisecond of the second Sunday of the reporting month, as for the
\* financial and the basic outreach family.
C29_ActivityPeriod ==
  PeriodDone({"activity"}) =>
    LET y == call.year
        m == call.monthIndex
        s == call.result.periodStartDate
        e == call.result.periodEndDate
    IN  /\ s.year = PrevYear(y, m) /\ s.month = PrevMonth(m)
        /\ s.date \in DaysOn(s.year, s.month, 0)
        /\ Cardinality({d \in DaysOn(s.year, s.month, 0) : d < s.date}) = 2
        /\ Midnight(s)
        /\ e.year = y /\ e.month = m
        /\ e.date \in DaysOn(y, m, 0)
        /\ Cardinality({d \in DaysOn(y, m, 0) : d < e.date}) = 1
        /\ EndOfDay(e)

\* C30: in the activity and fellowship-outreach families, an approve-reject
\* request on a pending report by a zonal coordinator without a zone is
\* answered with an authorization error, as for a coordinator of another
\* zone, never with a server error, and the report stays pending.
C30_UnassignedCoordinator ==
  family \in {"activity", "fellowshipOutreach"} =>
    \A r \in reports : \A u \in Users :
      (/\ r.status = "pending"
       /\ StrIncludes(UserRole[u], "zonal_coordinator")
       /\ UserZone[u] = None) =>
        \A d \in {"approved", "rejected"}, rs \in Reasons :
          LET o == ApproveChecks(family, reports, u, r.id, d, rs) IN
          /\ StatusCode(o) # 500
          /\ Kind(o) = "AuthorizationError"

=============================================================================
